---- MODULE Spec2Model ----
(***************************************************************************)
(* Stock ledger of sistema-inventarios-backend: the productos and          *)
(* movimientos_inventario tables and the request handlers that write them  *)
(* (POST /api/inventory/entrada, /salida, /ajuste and POST, PUT, DELETE    *)
(* /api/products).  A movement handler runs in three steps separated by    *)
(* its awaits: reception (authentication, permission and body validation), *)
(* the SELECT of the product with the computation that follows it, and the *)
(* transaction with the response that follows it.  Steps of different      *)
(* requests interleave freely, as the awaits of concurrent requests do.    *)
(*                                                                         *)
(* Spec has the seeded administrator as its only caller.  SpecAcceso adds  *)
(* the callers that are turned away (401, 403) and the bodies that fail    *)
(* validation; SpecAccesoJusto is SpecAcceso where every awaited promise   *)
(* settles; SpecDos starts with two products.  SpecCatalogo applies the    *)
(* handlers that read or extend productos (stock-bajo, resumen, dashboard, *)
(* POST /api/products) to every small table, and SpecLibro applies the     *)
(* movement lists to every small ledger.                                   *)
(***************************************************************************)
EXTENDS Integers, Sequences, FiniteSets, TLC

\* ---------------------------------------------------------------- bounds
MaxProductos == 1
MaxMovimientos == 2
NumPeticiones == 2

VARIABLES productos, movimientos, peticiones, categorias

vars == <<productos, movimientos, peticiones, categorias>>

Peticiones == 1..NumPeticiones

\* ------------------------------------------------------ JavaScript values
\* A value of the JSON body: a number, or a string holding the decimal text
\* of v (what a JSON string or any urlencoded body field delivers).
JsNum(x) == [t |-> "number", v |-> x]
JsStr(x) == [t |-> "string", v |-> x]

Abs(x) == IF x < 0 THEN 0 - x ELSE x

RECURSIVE Digits(_)
Digits(n) == IF n < 10 THEN 1 ELSE 1 + Digits(n \div 10)

RECURSIVE Pow10(_)
Pow10(d) == IF d = 0 THEN 1 ELSE 10 * Pow10(d - 1)

\* String(a) followed by the text of b, read back as an integer.
Concat(a, b) ==
  IF a < 0 THEN 0 - (Abs(a) * Pow10(Digits(b)) + b)
  ELSE a * Pow10(Digits(b)) + b

\* a + c of JavaScript, a a number: addition when c is a number,
\* concatenation when c is a string.
JsAdd(a, c) ==
  IF c.t = "number" THEN JsNum(a + c.v) ELSE JsStr(Concat(a, c.v))

\* a - c and a < c of JavaScript convert a numeric string to its number.
JsSub(a, c) == JsNum(a - c.v)
JsLess(a, c) == a < c.v

\* The integer MySQL stores in an INT column for a bound parameter.
SqlInt(j) == j.v

\* ------------------------------------------------------------ permissions
\* roles.permisos: the three seeded roles, and invitado, a row of the roles
\* table that grants neither all nor inventory.  A permission is "true",
\* "false", "object" (a nested object) or "undefined" (key absent).
Roles ==
  [admin |-> [all |-> "true", products |-> "undefined", inventory |-> "undefined",
              reports |-> "undefined"],
   supervisor |-> [all |-> "undefined", products |-> "true", inventory |-> "true",
                   reports |-> "true"],
   usuario |-> [all |-> "undefined", products |-> "true", inventory |-> "object",
                reports |-> "undefined"],
   invitado |-> [all |-> "undefined", products |-> "true", inventory |-> "undefined",
                 reports |-> "undefined"]]

\* usuarios: the seeded administrator (id 1), a user of role invitado, a
\* deactivated supervisor and a user of the seeded role usuario.
Usuarios ==
  << [rol |-> "admin", activo |-> TRUE],
     [rol |-> "invitado", activo |-> TRUE],
     [rol |-> "supervisor", activo |-> FALSE],
     [rol |-> "usuario", activo |-> TRUE] >>

Permisos(u) == Roles[Usuarios[u].rol]

Truthy(p) == p \in {"true", "object"}

\* Mutant: the check copied from the products routes, testing permisos.products.
PermisoInventarioCopiado(u) == Truthy(Permisos(u).all) \/ Truthy(Permisos(u).products)

\* !req.user.permisos.all && !req.user.permisos.inventory is false
PermisoInventario(u) == Truthy(Permisos(u).all) \/ Truthy(Permisos(u).inventory)

PermisoProductos(u) == Truthy(Permisos(u).all) \/ Truthy(Permisos(u).products)

\* !req.user.permisos.all && !req.user.permisos.reports is false
PermisoReportes(u) == Truthy(Permisos(u).all) \/ Truthy(Permisos(u).reports)

\* --------------------------------------------------------- authentication
\* The Authorization header of a request: absent, a token jwt.verify
\* rejects, or a verified token carrying decoded.userId.
SinToken == [t |-> "none", userId |-> 0]
TokenInvalido == [t |-> "bad", userId |-> 0]
Jwt(id) == [t |-> "jwt", userId |-> id]

\* SELECT u.*, r.permisos FROM usuarios u JOIN roles r ... WHERE u.id = ? AND u.activo = 1
SelectUsuarioActivo(id) == {u \in DOMAIN Usuarios : u = id /\ Usuarios[u].activo}

\* authenticateToken: 401 and the request ends, or req.user and next().
AuthenticateToken(token) ==
  IF token.t = "none"
  THEN [status |-> 401, error |-> "Token de acceso requerido", user |-> 0]
  ELSE IF token.t = "bad"
  THEN [status |-> 401, error |-> "Token invalido", user |-> 0]
  ELSE IF SelectUsuarioActivo(token.userId) = {}
  THEN [status |-> 401, error |-> "Usuario no valido", user |-> 0]
  ELSE [status |-> 0, error |-> "", user |-> CHOOSE u \in SelectUsuarioActivo(token.userId) : TRUE]

\* ------------------------------------------------------------- validation
Tipos == {"entrada", "salida", "ajuste"}

\* A body field that is absent, and a number with a fractional part (v + 1/2).
JsUndefined == [t |-> "undefined", v |-> 0]
JsFrac(x) == [t |-> "fraction", v |-> x]

\* Mutant: isInt({min: 0}).
IsIntMin0(j) == j.t \in {"number", "string"} /\ j.v >= 0

\* isInt({min: 1}): the text of the value is an integer, and it is >= 1.
IsIntMin1(j) == j.t \in {"number", "string"} /\ j.v >= 1

\* Mutant: the validation chain without the isIn check of tipo.
ValidationErrorsSinTipo(pid, tipo, cantidad) ==
  {f \in {"producto_id", "cantidad"} :
     \/ f = "producto_id" /\ ~(pid >= 1)
     \/ f = "cantidad" /\ ~IsIntMin1(cantidad)}

\* errors.array() of validationResult(req): the fields that failed.
ValidationErrors(pid, tipo, cantidad) ==
  {f \in {"producto_id", "tipo", "cantidad"} :
     \/ f = "producto_id" /\ ~(pid >= 1)
     \/ f = "tipo" /\ tipo \notin Tipos
     \/ f = "cantidad" /\ ~IsIntMin1(cantidad)}

\* errors.isEmpty()
InventoryValidation(pid, tipo, cantidad) == ValidationErrors(pid, tipo, cantidad) = {}

\* ------------------------------------------------------------------ Init
PeticionLibre ==
  [pc |-> "libre", ruta |-> "", usuario_id |-> 0, producto_id |-> 0,
   cantidad |-> JsNum(0), cantidad_anterior |-> 0, cantidad_nueva |-> JsNum(0),
   status |-> 0, error |-> "", details |-> {}]

\* categorias: the ids the products refer to, and the table with each row
\* active (activo BOOLEAN DEFAULT TRUE), as the seed inserts them.
Categorias == {1}
CategoriasActivas == [c \in Categorias |-> [activo |-> TRUE]]

Init ==
  /\ productos = <<>>
  /\ movimientos = <<>>
  /\ peticiones = [r \in Peticiones |-> PeticionLibre]
  /\ categorias = CategoriasActivas

\* ------------------------------------------------------------ SQL queries
\* Mutant: the SELECT without its activo = 1 condition.
SelectProductoCualquiera(pid) ==
  {p \in DOMAIN productos : p = pid}

\* SELECT id, nombre, stock_actual FROM productos WHERE id = ? AND activo = 1
SelectProductoActivo(pid) ==
  {p \in DOMAIN productos : p = pid /\ productos[p].activo}

\* Mutant: REPLACE INTO in place of INSERT INTO, overwriting the latest row.
InsertMovimientoReplace(movs, q) ==
  LET fila(n) == [id |-> n, producto_id |-> q.producto_id, tipo |-> q.tipo,
                  cantidad |-> SqlInt(q.cantidad),
                  cantidad_anterior |-> q.cantidad_anterior,
                  cantidad_nueva |-> SqlInt(q.cantidad_nueva),
                  usuario_id |-> q.usuario_id]
  IN IF movs = <<>> THEN <<fila(1)>> ELSE [movs EXCEPT ![Len(movs)] = fila(Len(movs))]

\* INSERT INTO movimientos_inventario (...) VALUES (...): id is AUTO_INCREMENT.
InsertMovimiento(movs, q) ==
  Append(movs,
         [id |-> Len(movs) + 1, producto_id |-> q.producto_id, tipo |-> q.tipo,
          cantidad |-> SqlInt(q.cantidad),
          cantidad_anterior |-> q.cantidad_anterior,
          cantidad_nueva |-> SqlInt(q.cantidad_nueva),
          usuario_id |-> q.usuario_id])

\* Mutant: the UPDATE without its WHERE id = ? condition.
UpdateStockSinWhere(prods, q) ==
  [p \in DOMAIN prods |-> [prods[p] EXCEPT !.stock_actual = SqlInt(q.cantidad_nueva)]]

\* UPDATE productos SET stock_actual = ? WHERE id = ?
UpdateStock(prods, q) ==
  [p \in DOMAIN prods |->
     IF p = q.producto_id
     THEN [prods[p] EXCEPT !.stock_actual = SqlInt(q.cantidad_nueva)]
     ELSE prods[p]]

\* The database after one query of a transaction.
ApplyQuery(db, q) ==
  IF q.sql = "INSERT movimientos_inventario"
  THEN [db EXCEPT !.movimientos = InsertMovimiento(db.movimientos, q)]
  ELSE [db EXCEPT !.productos = UpdateStock(db.productos, q)]

RECURSIVE ApplyQueries(_, _)
ApplyQueries(db, qs) ==
  IF qs = <<>> THEN db ELSE ApplyQueries(ApplyQuery(db, Head(qs)), Tail(qs))

\* executeTransaction(queries): every query of the list, in order, as one
\* all-or-nothing unit.
ExecuteTransaction(qs) ==
  LET db == ApplyQueries([productos |-> productos, movimientos |-> movimientos], qs)
  IN /\ productos' = db.productos
     /\ movimientos' = db.movimientos
     /\ UNCHANGED categorias

\* ------------------------------------------------- movement computations
\* Mutant: /ajuste taking its input as a delta, like /entrada.
CantidadNuevaDelta(ruta, anterior, cantidad) ==
  CASE ruta = "entrada" -> JsAdd(anterior, cantidad)
    [] ruta = "salida" -> JsSub(anterior, cantidad)
    [] ruta = "ajuste" -> JsAdd(anterior, cantidad)

\* cantidad_nueva of each handler, from the stock read and the body's cantidad.
CantidadNueva(ruta, anterior, cantidad) ==
  CASE ruta = "entrada" -> JsAdd(anterior, cantidad)
    [] ruta = "salida" -> JsSub(anterior, cantidad)
    [] ruta = "ajuste" -> cantidad

\* Mutant: the stock check with <= in place of <.
StockInsuficienteEstricto(anterior, cantidad) == anterior <= cantidad.v

\* if (cantidad_anterior < cantidad) of /salida
StockInsuficiente(anterior, cantidad) == JsLess(anterior, cantidad)

\* Mutant: /ajuste recording the body's cantidad, like the other handlers.
CantidadRegistradaCruda(ruta, anterior, cantidad, nueva) == cantidad

\* The cantidad parameter of each handler's INSERT.
CantidadRegistrada(ruta, anterior, cantidad, nueva) ==
  IF ruta = "ajuste" THEN JsNum(Abs(nueva.v - anterior)) ELSE cantidad

\* Mutant: the queries array without the UPDATE of productos.
QueriesSinUpdate(ruta, pid, cantidad, anterior, nueva, uid) ==
  << [sql |-> "INSERT movimientos_inventario", producto_id |-> pid, tipo |-> ruta,
      cantidad |-> cantidad, cantidad_anterior |-> anterior,
      cantidad_nueva |-> nueva, usuario_id |-> uid] >>

\* The queries array each handler hands to executeTransaction.
Queries(ruta, pid, cantidad, anterior, nueva, uid) ==
  << [sql |-> "INSERT movimientos_inventario", producto_id |-> pid, tipo |-> ruta,
      cantidad |-> CantidadRegistrada(ruta, anterior, cantidad, nueva),
      cantidad_anterior |-> anterior, cantidad_nueva |-> nueva, usuario_id |-> uid],
     [sql |-> "UPDATE productos", producto_id |-> pid, tipo |-> ruta,
      cantidad |-> CantidadRegistrada(ruta, anterior, cantidad, nueva),
      cantidad_anterior |-> anterior, cantidad_nueva |-> nueva, usuario_id |-> uid] >>

\* res.status(s).json({error: e}): an error response carries the status and
\* the error alone, and the handler's locals are gone.
RespuestaError(s, e) == [PeticionLibre EXCEPT !.pc = "fin", !.status = s, !.error = e]

Responder(r, s, e) ==
  peticiones' = [peticiones EXCEPT ![r] = RespuestaError(s, e)]

\* Requests that have passed validation and have not been answered.
EnCurso == {r \in Peticiones : peticiones[r].pc \in {"select", "tx"}}

\* ------------------------------------------------------- request inputs
Rutas == {"entrada", "salida", "ajuste"}
TiposBody == Tipos \cup {"otro"}
Cantidades == {JsNum(0), JsNum(1), JsNum(2), JsStr(1)}
CantidadesBody == {JsNum(1), JsStr(1), JsNum(0), JsNum(0 - 1), JsFrac(1), JsUndefined}
\* Tokens of the seeded administrator, and of every caller.
UsuariosSemilla == {1}
TokensSemilla == {Jwt(u) : u \in UsuariosSemilla}
Tokens == {SinToken, TokenInvalido} \cup {Jwt(id) : id \in 1..(Len(Usuarios) + 1)}
ProductoIds == 1..MaxProductos
StocksBody == {0 - 1, 2}
Nombres == {"A"}
Precios == {1}
Minimos == {1}

\* ----------------------------------------------- POST /entrada|salida|ajuste
\* Mutant: one handler for the three routes that takes the kind of the
\* movement from the tipo of the body.
RecepcionPorTipo(ruta, token, pid, tipo, cantidad) ==
  LET auth == AuthenticateToken(token)
      p == [PeticionLibre EXCEPT !.ruta = tipo, !.usuario_id = auth.user,
                                 !.producto_id = pid, !.cantidad = cantidad]
  IN IF auth.status # 0
     THEN RespuestaError(auth.status, auth.error)
     ELSE IF ~PermisoInventario(auth.user)
     THEN RespuestaError(403, "Acceso denegado")
     ELSE IF ~InventoryValidation(pid, tipo, cantidad)
     THEN [RespuestaError(400, "Datos invalidos") EXCEPT
             !.details = ValidationErrors(pid, tipo, cantidad)]
     ELSE [p EXCEPT !.pc = "select"]

\* What the reception of a request leaves in its slot: the response of
\* authenticateToken, of the permission check or of the validation result, or
\* the handler's locals at the await of the product SELECT.
Recepcion(ruta, token, pid, tipo, cantidad) ==
  LET auth == AuthenticateToken(token)
      p == [PeticionLibre EXCEPT !.ruta = ruta, !.usuario_id = auth.user,
                                 !.producto_id = pid, !.cantidad = cantidad]
  IN IF auth.status # 0
     THEN RespuestaError(auth.status, auth.error)
     ELSE IF ~PermisoInventario(auth.user)
     THEN RespuestaError(403, "Acceso denegado")
     ELSE IF ~InventoryValidation(pid, tipo, cantidad)
     THEN [RespuestaError(400, "Datos invalidos") EXCEPT
             !.details = ValidationErrors(pid, tipo, cantidad)]
     ELSE [p EXCEPT !.pc = "select"]

\* Reception: authentication, the permission check and the validation
\* result, up to the await of the product SELECT.  A request takes a slot that
\* was never used (the lowest one) or one whose response has been sent.
Recibir(r, ruta, token, pid, tipo, cantidad) ==
  /\ peticiones[r].pc \in {"libre", "fin"}
  /\ \A o \in Peticiones : o < r => peticiones[o].pc # "libre"
  /\ Len(movimientos) + Cardinality(EnCurso) < MaxMovimientos
  /\ peticiones' = [peticiones EXCEPT ![r] = Recepcion(ruta, token, pid, tipo, cantidad)]
  /\ UNCHANGED <<productos, movimientos, categorias>>

\* Mutant: the message built from the stock the salida would have left.
MensajeStockInsuficienteResta(anterior, cantidad) ==
  [RespuestaError(400, "Stock insuficiente") EXCEPT
     !.cantidad = cantidad, !.cantidad_anterior = anterior - cantidad.v]

\* The 400 of /salida: error 'Stock insuficiente' with the message
\* `Disponible: ${cantidad_anterior}, Solicitado: ${cantidad}`.
MensajeStockInsuficiente(anterior, cantidad) ==
  [RespuestaError(400, "Stock insuficiente") EXCEPT
     !.cantidad = cantidad, !.cantidad_anterior = anterior]

\* Mutant: /salida without the return before its 400: the handler goes on to
\* the transaction after answering.
LeerProductoSinReturn(r) ==
  LET pet == peticiones[r]
      products == SelectProductoActivo(pet.producto_id)
  IN /\ pet.pc = "select"
     /\ IF products = {}
        THEN /\ Responder(r, 404, "Producto no encontrado")
             /\ UNCHANGED <<productos, movimientos, categorias>>
        ELSE LET producto == productos[CHOOSE p \in products : TRUE]
                 anterior == producto.stock_actual
                 nueva == CantidadNueva(pet.ruta, anterior, pet.cantidad)
             IN IF pet.ruta = "salida" /\ StockInsuficiente(anterior, pet.cantidad)
                THEN /\ peticiones' =
                          [peticiones EXCEPT ![r] =
                             MensajeStockInsuficiente(anterior, pet.cantidad)]
                     /\ ExecuteTransaction(Queries(pet.ruta, pet.producto_id, pet.cantidad,
                                                   anterior, nueva, pet.usuario_id))
                ELSE /\ peticiones' = [peticiones EXCEPT ![r].pc = "tx",
                                         ![r].cantidad_anterior = anterior,
                                         ![r].cantidad_nueva = nueva]
                     /\ UNCHANGED <<productos, movimientos, categorias>>

\* Mutant: the branch of products.length === 0 returns without a response.
LeerProductoSinRespuesta(r) ==
  LET pet == peticiones[r]
      products == SelectProductoActivo(pet.producto_id)
  IN /\ pet.pc = "select"
     /\ IF products = {}
        THEN peticiones' = [peticiones EXCEPT ![r].pc = "colgada"]
        ELSE LET producto == productos[CHOOSE p \in products : TRUE]
                 anterior == producto.stock_actual
                 nueva == CantidadNueva(pet.ruta, anterior, pet.cantidad)
             IN IF pet.ruta = "salida" /\ StockInsuficiente(anterior, pet.cantidad)
                THEN peticiones' =
                       [peticiones EXCEPT ![r] =
                          MensajeStockInsuficiente(anterior, pet.cantidad)]
                ELSE peticiones' = [peticiones EXCEPT ![r].pc = "tx",
                                      ![r].cantidad_anterior = anterior,
                                      ![r].cantidad_nueva = nueva]
     /\ UNCHANGED <<productos, movimientos, categorias>>

\* The SELECT of the product and the code up to the await of the transaction.
LeerProducto(r) ==
  LET pet == peticiones[r]
      products == SelectProductoActivo(pet.producto_id)
  IN /\ pet.pc = "select"
     /\ IF products = {}
        THEN Responder(r, 404, "Producto no encontrado")
        ELSE LET producto == productos[CHOOSE p \in products : TRUE]
                 anterior == producto.stock_actual
                 nueva == CantidadNueva(pet.ruta, anterior, pet.cantidad)
             IN IF pet.ruta = "salida" /\ StockInsuficiente(anterior, pet.cantidad)
                THEN peticiones' =
                       [peticiones EXCEPT ![r] =
                          MensajeStockInsuficiente(anterior, pet.cantidad)]
                ELSE peticiones' = [peticiones EXCEPT ![r].pc = "tx",
                                      ![r].cantidad_anterior = anterior,
                                      ![r].cantidad_nueva = nueva]
     /\ UNCHANGED <<productos, movimientos, categorias>>

\* parseInt of a number or of a string of digits.
ParseInt(j) == j.v

\* data.movimiento of the 201 of a handler whose locals are pet: the fields
\* the handler writes into it.
Respuesta201(pet) ==
  [producto_id |-> pet.producto_id, tipo |-> pet.ruta,
   cantidad |-> IF pet.ruta = "ajuste"
                THEN Abs(pet.cantidad_nueva.v - pet.cantidad_anterior)
                ELSE ParseInt(pet.cantidad),
   cantidad_anterior |-> pet.cantidad_anterior,
   cantidad_nueva |-> pet.cantidad_nueva,
   usuario_id |-> pet.usuario_id]

\* Mutant: the 201 sent without awaiting the transaction, which never runs.
TransaccionSinEscribir(r) ==
  /\ peticiones[r].pc = "tx"
  /\ peticiones' = [peticiones EXCEPT ![r].pc = "fin", ![r].status = 201]
  /\ UNCHANGED <<productos, movimientos, categorias>>

\* The transaction commits and the handler answers 201.
Transaccion(r) ==
  LET pet == peticiones[r]
  IN /\ pet.pc = "tx"
     /\ ExecuteTransaction(Queries(pet.ruta, pet.producto_id, pet.cantidad,
                                   pet.cantidad_anterior, pet.cantidad_nueva,
                                   pet.usuario_id))
     /\ peticiones' = [peticiones EXCEPT ![r].pc = "fin", ![r].status = 201]

\* Mutant: the queries run one by one without a transaction; the INSERT
\* stays when the UPDATE throws.
TransaccionFallaParcial(r) ==
  LET pet == peticiones[r]
      qs == Queries(pet.ruta, pet.producto_id, pet.cantidad, pet.cantidad_anterior,
                    pet.cantidad_nueva, pet.usuario_id)
  IN /\ pet.pc = "tx"
     /\ Responder(r, 500, "Error interno del servidor")
     /\ movimientos' = InsertMovimiento(movimientos, qs[1])
     /\ UNCHANGED <<productos, categorias>>

\* The transaction throws (rolled back) and the catch block answers 500.
TransaccionFalla(r) ==
  /\ peticiones[r].pc = "tx"
  /\ Responder(r, 500, "Error interno del servidor")
  /\ UNCHANGED <<productos, movimientos, categorias>>

\* ------------------------------------------------------ /api/products
\* The outcome of a products handler: the status of its response and the
\* productos table it leaves.
ResultadoProducto(s, tabla) == [status |-> s, productos |-> tabla]

\* POST /api/products.  stock is the body's value as JavaScript has it; one
\* that is absent is bound to the INSERT as NULL, which the NOT NULL column
\* stock_actual rejects, and the catch block answers 500.
PostProducto(u, nombre, precio, stock, minimo, categoria) ==
  IF ~PermisoProductos(u) THEN ResultadoProducto(403, productos)
  ELSE IF stock.t = "undefined" THEN ResultadoProducto(500, productos)
  ELSE ResultadoProducto(200,
         Append(productos,
                [nombre |-> nombre, precio |-> precio, stock_actual |-> SqlInt(stock),
                 stock_minimo |-> minimo, categoria_id |-> categoria,
                 activo |-> TRUE]))

\* PUT /api/products/:id: UPDATE ... WHERE id = ? AND activo = 1, and 404 when
\* affectedRows is 0.
PutProducto(u, id, nombre, precio, stock, minimo, categoria) ==
  IF ~PermisoProductos(u) THEN ResultadoProducto(403, productos)
  ELSE IF SelectProductoActivo(id) = {} THEN ResultadoProducto(404, productos)
  ELSE ResultadoProducto(200,
         [productos EXCEPT ![id].nombre = nombre, ![id].precio = precio,
                           ![id].stock_actual = stock,
                           ![id].stock_minimo = minimo,
                           ![id].categoria_id = categoria])

\* Mutant: the UPDATE of DELETE without its activo = 1 condition.
DeleteProductoSinActivo(u, id) ==
  IF ~PermisoProductos(u) THEN ResultadoProducto(403, productos)
  ELSE IF id \notin DOMAIN productos THEN ResultadoProducto(404, productos)
  ELSE ResultadoProducto(200, [productos EXCEPT ![id].activo = FALSE])

\* DELETE /api/products/:id: UPDATE productos SET activo = 0 WHERE id = ? AND
\* activo = 1, and 404 when affectedRows is 0.
DeleteProducto(u, id) ==
  IF ~PermisoProductos(u) THEN ResultadoProducto(403, productos)
  ELSE IF SelectProductoActivo(id) = {} THEN ResultadoProducto(404, productos)
  ELSE ResultadoProducto(200, [productos EXCEPT ![id].activo = FALSE])

\* POST /api/products
CrearProducto(u, nombre, precio, stock, minimo, categoria) ==
  /\ Len(productos) < MaxProductos
  /\ LET res == PostProducto(u, nombre, precio, JsNum(stock), minimo, categoria)
     IN /\ res.status = 200
        /\ productos' = res.productos
  /\ UNCHANGED <<movimientos, peticiones, categorias>>

\* PUT /api/products/:id
ActualizarProducto(u, id, nombre, precio, stock, minimo, categoria) ==
  /\ LET res == PutProducto(u, id, nombre, precio, stock, minimo, categoria)
     IN /\ res.status = 200
        /\ productos' = res.productos
  /\ UNCHANGED <<movimientos, peticiones, categorias>>

\* DELETE /api/products/:id
EliminarProducto(u, id) ==
  /\ LET res == DeleteProducto(u, id)
     IN /\ res.status = 200
        /\ productos' = res.productos
  /\ UNCHANGED <<movimientos, peticiones, categorias>>

\* ------------------------------------------------------------------ Next
Next ==
  \/ \E r \in Peticiones, ruta \in Rutas, token \in TokensSemilla, pid \in ProductoIds,
        tipo \in TiposBody, cantidad \in Cantidades :
       Recibir(r, ruta, token, pid, tipo, cantidad)
  \/ \E r \in Peticiones : LeerProducto(r)
  \/ \E r \in Peticiones : Transaccion(r)
  \/ \E r \in Peticiones : TransaccionFalla(r)
  \/ \E u \in UsuariosSemilla, nombre \in Nombres, precio \in Precios, stock \in StocksBody,
        minimo \in Minimos, categoria \in Categorias :
       CrearProducto(u, nombre, precio, stock, minimo, categoria)
  \/ \E u \in UsuariosSemilla, id \in ProductoIds, nombre \in Nombres, precio \in Precios,
        stock \in StocksBody, minimo \in Minimos, categoria \in Categorias :
       ActualizarProducto(u, id, nombre, precio, stock, minimo, categoria)
  \/ \E u \in UsuariosSemilla, id \in ProductoIds : EliminarProducto(u, id)

Spec == Init /\ [][Next]_vars

\* ------------------------------------------------------------ NextAcceso
\* The same handlers called by every kind of caller (no token, a rejected
\* token, an unknown or deactivated user, a user without the inventory
\* capability, the administrator) with every kind of cantidad.
\* (The user of the seeded role usuario is left to SpecUsuario.)
UsuarioBasico == CHOOSE u \in DOMAIN Usuarios : Usuarios[u].rol = "usuario"
TokensAcceso == Tokens \ {Jwt(UsuarioBasico)}
UsuariosProductos ==
  {u \in DOMAIN Usuarios \ {UsuarioBasico} : Usuarios[u].activo /\ PermisoProductos(u)}
StocksAcceso == {1}

NextAcceso ==
  \/ \E r \in Peticiones, ruta \in Rutas, token \in TokensAcceso, pid \in ProductoIds,
        cantidad \in CantidadesBody :
       \E tipo \in {ruta, "otro"} : Recibir(r, ruta, token, pid, tipo, cantidad)
  \/ \E r \in Peticiones : LeerProducto(r)
  \/ \E r \in Peticiones : Transaccion(r)
  \/ \E r \in Peticiones : TransaccionFalla(r)
  \/ \E u \in UsuariosProductos, nombre \in Nombres, precio \in Precios,
        stock \in StocksAcceso, minimo \in Minimos, categoria \in Categorias :
       CrearProducto(u, nombre, precio, stock, minimo, categoria)
  \/ \E u \in UsuariosProductos, id \in ProductoIds, nombre \in Nombres, precio \in Precios,
        stock \in StocksAcceso, minimo \in Minimos, categoria \in Categorias :
       ActualizarProducto(u, id, nombre, precio, stock, minimo, categoria)
  \/ \E u \in UsuariosProductos, id \in ProductoIds : EliminarProducto(u, id)

SpecAcceso == Init /\ [][NextAcceso]_vars

\* ================================================================ claims
\* Rows a step appends to movimientos_inventario (indices of the new log).
FilasNuevas == (Len(movimientos) + 1)..Len(movimientos')

\* Indices of the committed movements of product p, and the latest of them.
FilasDe(p) == {i \in 1..Len(movimientos) : movimientos[i].producto_id = p}

Ultima(p) == movimientos[CHOOSE i \in FilasDe(p) : \A j \in FilasDe(p) : j <= i]

\* Request r's transaction commits in this step.
Confirma(r) ==
  /\ peticiones[r].pc = "tx"
  /\ peticiones'[r].pc = "fin"
  /\ peticiones'[r].status = 201

\* Request r's product SELECT is answered in this step.
Lee(r) ==
  /\ peticiones[r].pc = "select"
  /\ peticiones'[r].pc # "select"

\* C1: N concurrent entradas of quantity q on a product starting at stock s
\* end with stock_actual = s + N*q and exactly N movement rows (here N is
\* every request slot, and the log holds their N rows and nothing else).
C1_EntradasConcurrentes ==
  \A p \in DOMAIN productos : \A q \in 1..2 :
    ( /\ Len(movimientos) = NumPeticiones
      /\ \A r \in Peticiones :
           /\ peticiones[r].pc = "fin"
           /\ peticiones[r].status = 201
           /\ peticiones[r].ruta = "entrada"
           /\ peticiones[r].producto_id = p
           /\ peticiones[r].cantidad = JsNum(q) )
    => productos[p].stock_actual = movimientos[1].cantidad_anterior + NumPeticiones * q

\* C2: of two movements of one product committed consecutively, the later
\* one's cantidad_anterior is the earlier one's cantidad_nueva.
C2_SnapshotsEncadenados ==
  \A i, j \in 1..Len(movimientos) :
    ( /\ i < j
      /\ movimientos[i].producto_id = movimientos[j].producto_id
      /\ \A k \in (i + 1)..(j - 1) : movimientos[k].producto_id # movimientos[i].producto_id )
    => movimientos[j].cantidad_anterior = movimientos[i].cantidad_nueva

\* C3: the movement row and the stock overwrite of one request appear in the
\* same step: every row a step adds comes with stock_actual equal to its
\* cantidad_nueva, a committing request adds exactly its row, and no step
\* adds a row without a request committing.
C3_Paso ==
  /\ \A k \in FilasNuevas :
       productos'[movimientos'[k].producto_id].stock_actual = movimientos'[k].cantidad_nueva
  /\ \A r \in Peticiones :
       Confirma(r) =>
         /\ Len(movimientos') = Len(movimientos) + 1
         /\ movimientos'[Len(movimientos')].producto_id = peticiones[r].producto_id
         /\ movimientos'[Len(movimientos')].cantidad_nueva = SqlInt(peticiones[r].cantidad_nueva)
         /\ productos'[peticiones[r].producto_id].stock_actual = SqlInt(peticiones[r].cantidad_nueva)
  /\ FilasNuevas # {} => \E r \in Peticiones : Confirma(r)
  /\ SubSeq(movimientos', 1, Len(movimientos)) = movimientos

\* C3: in every step the movement INSERT and the stock_actual UPDATE of a
\* request become visible together (C3_Paso).
C3_CommitAtomico == [][C3_Paso]_vars

\* C3 witness: a request was answered 201, its row changed the stock and
\* stock_actual is the row's cantidad_nueva.
C3_Witness ==
  \E r \in Peticiones :
    /\ peticiones[r].pc = "fin"
    /\ peticiones[r].status = 201
    /\ Len(movimientos) >= 1
    /\ movimientos[Len(movimientos)].cantidad_nueva # movimientos[Len(movimientos)].cantidad_anterior
    /\ productos[peticiones[r].producto_id].stock_actual = movimientos[Len(movimientos)].cantidad_nueva

\* C4: every product with a committed movement has stock_actual equal to the
\* cantidad_nueva of its most recently committed movement.
C4_StockEsUltimoMovimiento ==
  \A p \in DOMAIN productos :
    FilasDe(p) # {} => productos[p].stock_actual = Ultima(p).cantidad_nueva

\* C5: stock_actual of every product, active or inactive, is >= 0.
C5_StockNoNegativo ==
  \A p \in DOMAIN productos : productos[p].stock_actual >= 0

\* C6: every committed movement row satisfies the formula of its kind.
C6_FormulaPorTipo ==
  \A i \in 1..Len(movimientos) :
    LET m == movimientos[i]
    IN /\ m.tipo = "entrada" => m.cantidad_nueva = m.cantidad_anterior + m.cantidad
       /\ m.tipo = "salida" => m.cantidad_nueva = m.cantidad_anterior - m.cantidad
       /\ m.tipo = "ajuste" => m.cantidad = Abs(m.cantidad_nueva - m.cantidad_anterior)

\* C7: a salida of quantity q on a product read with stock s passes the stock
\* check exactly when q <= s and then commits stock s - q (0 when q = s);
\* when q > s it is answered 400 "Stock insuficiente" and neither table changes.
C7_Paso ==
  \A r \in Peticiones :
    LET pet == peticiones[r]
        res == peticiones'[r]
        q == pet.cantidad.v
    IN /\ ( /\ Lee(r)
            /\ pet.ruta = "salida"
            /\ pet.producto_id \in DOMAIN productos
            /\ productos[pet.producto_id].activo )
          => LET s == productos[pet.producto_id].stock_actual
             IN IF q > s
                THEN /\ res.pc = "fin"
                     /\ res.status = 400
                     /\ res.error = "Stock insuficiente"
                     /\ UNCHANGED <<productos, movimientos>>
                ELSE /\ res.pc = "tx"
                     /\ res.cantidad_anterior = s
                     /\ SqlInt(res.cantidad_nueva) = s - q
       /\ (Confirma(r) /\ pet.ruta = "salida")
          => /\ q <= pet.cantidad_anterior
             /\ Len(movimientos') = Len(movimientos) + 1
             /\ movimientos'[Len(movimientos')].tipo = "salida"
             /\ movimientos'[Len(movimientos')].cantidad = q
             /\ productos'[pet.producto_id].stock_actual = pet.cantidad_anterior - q
       /\ (res.error = "Stock insuficiente" /\ pet.error # "Stock insuficiente")
          => /\ pet.ruta = "salida"
             /\ q > res.cantidad_anterior
             /\ UNCHANGED <<productos, movimientos>>

\* C7: in every step a salida is accepted exactly when q <= s and rejected
\* without any write when q > s (C7_Paso).
C7_SalidaSiHayStock == [][C7_Paso]_vars

\* C7 witness, Scenario A: a salida of the whole stock was committed, leaving 0, and the
\* next salida was answered insufficient stock with 0 available.
C7_Witness ==
  \E r, o \in Peticiones :
    /\ peticiones[r].pc = "fin"
    /\ peticiones[r].status = 201
    /\ peticiones[r].ruta = "salida"
    /\ peticiones[r].cantidad.v = peticiones[r].cantidad_anterior
    /\ peticiones[o].pc = "fin"
    /\ peticiones[o].error = "Stock insuficiente"
    /\ peticiones[o].cantidad_anterior = 0
    /\ Len(movimientos) = 1
    /\ movimientos[1].tipo = "salida"
    /\ movimientos[1].cantidad_nueva = 0
    /\ productos[movimientos[1].producto_id].stock_actual = 0

\* C8: an ajuste with input v that read stock s commits the row
\* (cantidad_anterior = s, cantidad_nueva = v, cantidad = |v - s|) and sets
\* stock_actual to v.
C8_Paso ==
  \A r \in Peticiones :
    LET pet == peticiones[r]
        res == peticiones'[r]
        v == pet.cantidad.v
    IN /\ (Lee(r) /\ pet.ruta = "ajuste" /\ res.pc = "tx")
          => res.cantidad_anterior = productos[pet.producto_id].stock_actual
       /\ (Confirma(r) /\ pet.ruta = "ajuste")
          => LET m == movimientos'[Len(movimientos')]
             IN /\ Len(movimientos') = Len(movimientos) + 1
                /\ m.producto_id = pet.producto_id
                /\ m.tipo = "ajuste"
                /\ m.cantidad_anterior = pet.cantidad_anterior
                /\ m.cantidad_nueva = v
                /\ m.cantidad = Abs(v - pet.cantidad_anterior)
                /\ productos'[pet.producto_id].stock_actual = v

\* C8: in every step a committing ajuste records (s, v, |v - s|) and sets
\* stock_actual to v (C8_Paso).
C8_AjusteAbsoluto == [][C8_Paso]_vars

\* C8 witness, Scenario B in small: an ajuste down from 2 to 1 recorded cantidad 1.
C8_Witness ==
  \E i \in 1..Len(movimientos) :
    /\ movimientos[i].tipo = "ajuste"
    /\ movimientos[i].cantidad_anterior = 2
    /\ movimientos[i].cantidad_nueva = 1
    /\ movimientos[i].cantidad = 1
    /\ i = Len(movimientos)
    /\ productos[movimientos[i].producto_id].stock_actual = 1

\* The product's latest movement is an ajuste to v and its stock is still v.
RecienAjustado(p, v) ==
  /\ FilasDe(p) # {}
  /\ Ultima(p).tipo = "ajuste"
  /\ Ultima(p).cantidad_nueva = v
  /\ productos[p].stock_actual = v

\* C9: an ajuste to v that follows an ajuste to v of the same product reads
\* stock v, commits a row with cantidad_anterior = cantidad_nueva = v and
\* cantidad = 0, and leaves stock_actual = v.
C9_Paso ==
  \A r \in Peticiones :
    LET pet == peticiones[r]
        res == peticiones'[r]
        v == pet.cantidad.v
    IN /\ (Lee(r) /\ pet.ruta = "ajuste" /\ RecienAjustado(pet.producto_id, v)
             /\ productos[pet.producto_id].activo)
          => /\ res.pc = "tx"
             /\ res.cantidad_anterior = v
       /\ (Confirma(r) /\ pet.ruta = "ajuste" /\ RecienAjustado(pet.producto_id, v)
             /\ pet.cantidad_anterior = v)
          => LET m == movimientos'[Len(movimientos')]
             IN /\ Len(movimientos') = Len(movimientos) + 1
                /\ m.cantidad_anterior = v
                /\ m.cantidad_nueva = v
                /\ m.cantidad = 0
                /\ productos'[pet.producto_id].stock_actual = v

\* C9: in every step an ajuste to v repeated right after an ajuste to v
\* records cantidad 0 and leaves stock_actual = v (C9_Paso).
C9_AjusteRepetido == [][C9_Paso]_vars

\* C9 witness: two ajustes to the same value in a row, the first a real
\* change, the second recorded with cantidad 0.
C9_Witness ==
  /\ Len(movimientos) = 2
  /\ movimientos[1].tipo = "ajuste"
  /\ movimientos[2].tipo = "ajuste"
  /\ movimientos[1].producto_id = movimientos[2].producto_id
  /\ movimientos[1].cantidad_anterior # movimientos[1].cantidad_nueva
  /\ movimientos[2].cantidad_anterior = movimientos[1].cantidad_nueva
  /\ movimientos[2].cantidad_nueva = movimientos[1].cantidad_nueva
  /\ movimientos[2].cantidad = 0
  /\ productos[movimientos[2].producto_id].stock_actual = movimientos[2].cantidad_nueva

\* C10: a movement request whose product does not exist or is inactive when
\* it is read is answered 404 "Producto no encontrado", and neither table
\* changes.
C10_Paso ==
  \A r \in Peticiones :
    LET pet == peticiones[r]
        res == peticiones'[r]
    IN /\ ( /\ Lee(r)
            /\ \/ pet.producto_id \notin DOMAIN productos
               \/ ~productos[pet.producto_id].activo )
          => /\ res.pc = "fin"
             /\ res.status = 404
             /\ res.error = "Producto no encontrado"
             /\ UNCHANGED <<productos, movimientos>>
       /\ (res.status = 404 /\ pet.status # 404)
          => /\ Lee(r)
             /\ \/ pet.producto_id \notin DOMAIN productos
                \/ ~productos[pet.producto_id].activo
             /\ UNCHANGED <<productos, movimientos>>

\* C10: in every step a request on a missing or inactive product is answered
\* 404 and changes nothing (C10_Paso).
C10_ProductoNoEncontrado == [][C10_Paso]_vars

\* C10 witness: a movement was committed on the product, the product was then deactivated
\* and a request was answered 404.
C10_Witness ==
  \E r \in Peticiones :
    /\ peticiones[r].pc = "fin"
    /\ peticiones[r].status = 404
    /\ Len(movimientos) >= 1
    /\ ~productos[movimientos[1].producto_id].activo

\* Request r is answered in this step (its response is sent).
Responde(r) ==
  /\ peticiones'[r] # peticiones[r]
  /\ peticiones'[r].pc = "fin"

\* C11: a product that is inactive keeps its stock_actual, its movement rows
\* and its inactive flag in every step, also when it was deactivated between
\* a request's product read and its commit.
C11_Paso ==
  \A p \in DOMAIN productos :
    ~productos[p].activo =>
      /\ productos'[p].stock_actual = productos[p].stock_actual
      /\ ~productos'[p].activo
      /\ \A k \in FilasNuevas : movimientos'[k].producto_id # p

\* C11: no step commits a movement against, or changes the stock of, an
\* inactive product (C11_Paso).
C11_InactivoCongelado == [][C11_Paso]_vars

\* C12: every step of a request before its transaction (reception, product
\* read) leaves both tables unchanged, and a response of 403, 400 or 404 is
\* sent by one of those steps, never after a write.
C12_Paso ==
  \A r \in Peticiones :
    /\ (peticiones'[r] # peticiones[r] /\ peticiones[r].pc \in {"libre", "fin", "select"})
       => UNCHANGED <<productos, movimientos>>
    /\ (Responde(r) /\ peticiones'[r].status \in {400, 403, 404})
       => /\ peticiones[r].pc \in {"libre", "fin", "select"}
          /\ UNCHANGED <<productos, movimientos>>

\* C12: a request rejected by a validation check (403, 400 invalid body, 404,
\* 400 insufficient stock) leaves productos and movimientos_inventario as
\* they were (C12_Paso).
C12_RechazoSinEscritura == [][C12_Paso]_vars

\* C12 witness: with a movement committed and the stock at 0, a caller without
\* the capability was answered 403 and a salida was answered insufficient stock.
C12_Witness ==
  \E r, o \in Peticiones :
    /\ peticiones[r].pc = "fin"
    /\ peticiones[r].status = 403
    /\ peticiones[o].pc = "fin"
    /\ peticiones[o].status = 400
    /\ peticiones[o].error = "Stock insuficiente"
    /\ Len(movimientos) >= 1
    /\ productos[movimientos[1].producto_id].stock_actual = 0

\* C13: a request whose transaction does not commit is answered 500 and
\* leaves both tables unchanged; a request in its transaction is answered 201
\* only in a step that appends its row.
C13_Paso ==
  \A r \in Peticiones :
    (peticiones[r].pc = "tx" /\ peticiones'[r] # peticiones[r])
    => /\ peticiones'[r].pc = "fin"
       /\ peticiones'[r].status \in {201, 500}
       /\ peticiones'[r].status = 500
          => /\ UNCHANGED <<productos, movimientos>>
             /\ peticiones'[r].error = "Error interno del servidor"
       /\ peticiones'[r].status = 201
          => /\ Len(movimientos') = Len(movimientos) + 1
             /\ productos'[peticiones[r].producto_id].stock_actual =
                  SqlInt(peticiones[r].cantidad_nueva)

\* C13: a failed or aborted commit applies neither the row nor the stock
\* overwrite and is answered 500, never a success (C13_Paso).
C13_FalloSinEfecto == [][C13_Paso]_vars

\* C13 witness: after one committed movement, a second request computed a
\* different stock, its transaction failed and it was answered 500; the stock
\* is still the first movement's cantidad_nueva.
C13_Witness ==
  \E r, o \in Peticiones :
    /\ peticiones[r].pc = "fin"
    /\ peticiones[r].status = 500
    /\ peticiones[o].pc = "fin"
    /\ peticiones[o].status = 201
    /\ Len(movimientos) = 1
    /\ movimientos[1].cantidad_nueva # movimientos[1].cantidad_anterior
    /\ productos[movimientos[1].producto_id].stock_actual = movimientos[1].cantidad_nueva

\* C14: stock_actual of an existing product changes only in a step that
\* appends a movement row of that product, and rows are appended only by a
\* committing entrada, salida or ajuste.
C14_Paso ==
  /\ \A p \in DOMAIN productos :
       productos'[p].stock_actual # productos[p].stock_actual
       => \E k \in FilasNuevas : movimientos'[k].producto_id = p
  /\ FilasNuevas # {} => \E r \in Peticiones : Confirma(r)

\* C14: no operation other than a committing movement changes stock_actual or
\* inserts movement rows (C14_Paso).
C14_SoloMovimientosEscriben == [][C14_Paso]_vars

\* C15: every step keeps the committed rows as they are (the old log is a
\* prefix of the new one) and the ids of the log are strictly increasing in
\* insertion order.
C15_Paso ==
  /\ Len(movimientos') >= Len(movimientos)
  /\ \A i \in 1..Len(movimientos) : movimientos'[i] = movimientos[i]
  /\ \A i, j \in 1..Len(movimientos') : i < j => movimientos'[i].id < movimientos'[j].id

\* C15: the movement log is append-only, with unique increasing ids (C15_Paso).
C15_LogSoloCrece == [][C15_Paso]_vars

\* C15 witness: two rows are in the log, the first one still as committed
\* while the second was added, and the product has since been deactivated.
C15_Witness ==
  /\ Len(movimientos) = 2
  /\ movimientos[1].id = 1
  /\ movimientos[2].id = 2
  /\ movimientos[2].cantidad_anterior = movimientos[1].cantidad_nueva
  /\ movimientos[2].cantidad_nueva # movimientos[1].cantidad_nueva
  /\ ~productos[movimientos[1].producto_id].activo

\* C16: a request answered 201 appends in that step exactly one row, its own,
\* and overwrites its product's stock_actual with that row's cantidad_nueva; a
\* request answered with another status writes nothing in that step; every
\* appended row belongs to exactly one request answered 201 in that step.
C16_Paso ==
  /\ \A r \in Peticiones :
       Responde(r) =>
         IF peticiones'[r].status = 201
         THEN LET pet == peticiones[r]
                  m == movimientos'[Len(movimientos')]
              IN /\ pet.pc = "tx"
                 /\ Len(movimientos') = Len(movimientos) + 1
                 /\ SubSeq(movimientos', 1, Len(movimientos)) = movimientos
                 /\ m.producto_id = pet.producto_id
                 /\ m.tipo = pet.ruta
                 /\ m.usuario_id = pet.usuario_id
                 /\ m.cantidad_anterior = pet.cantidad_anterior
                 /\ m.cantidad_nueva = SqlInt(pet.cantidad_nueva)
                 /\ productos'[pet.producto_id].stock_actual = m.cantidad_nueva
                 /\ \A b \in DOMAIN productos :
                      b # pet.producto_id => productos'[b] = productos[b]
         ELSE UNCHANGED <<productos, movimientos>>
  /\ FilasNuevas # {}
     => Cardinality({r \in Peticiones : Responde(r) /\ peticiones'[r].status = 201}) = 1

\* C16: every request is applied exactly once when it answers 201 and not at
\* all when it answers anything else (C16_Paso).
C16_ExactamenteUnaVez == [][C16_Paso]_vars

\* C16 witness: one request answered 201 and one answered 500, with exactly
\* one row in the log, the row of the request answered 201.
C16_Witness ==
  \E r, o \in Peticiones :
    /\ peticiones[r].status = 201
    /\ peticiones[o].status = 500
    /\ Len(movimientos) = 1
    /\ movimientos[1].tipo = peticiones[r].ruta
    /\ movimientos[1].cantidad_anterior = peticiones[r].cantidad_anterior
    /\ movimientos[1].cantidad_nueva = SqlInt(peticiones[r].cantidad_nueva)

\* ------------------------------------------------------------- SpecDos
\* Movements on more than one product: the products exist from the start, one
\* more than MaxProductos, and the requests address any of them.
NumProductosDos == MaxProductos + 1
ProductoIdsDos == 1..NumProductosDos
CantidadesDos == {JsNum(1), JsNum(2)}

InitDos ==
  /\ productos = [p \in ProductoIdsDos |->
                    [nombre |-> "A", precio |-> 1, stock_actual |-> 2,
                     stock_minimo |-> 1, categoria_id |-> 1, activo |-> TRUE]]
  /\ movimientos = <<>>
  /\ peticiones = [r \in Peticiones |-> PeticionLibre]
  /\ categorias = CategoriasActivas

NextDos ==
  \/ \E r \in Peticiones, ruta \in Rutas, token \in TokensSemilla, pid \in ProductoIdsDos,
        cantidad \in CantidadesDos :
       Recibir(r, ruta, token, pid, ruta, cantidad)
  \/ \E r \in Peticiones : LeerProducto(r)
  \/ \E r \in Peticiones : Transaccion(r)
  \/ \E r \in Peticiones : TransaccionFalla(r)
  \/ \E u \in UsuariosSemilla, id \in ProductoIdsDos : EliminarProducto(u, id)

SpecDos == InitDos /\ [][NextDos]_vars

\* Rows of product p in a log.
FilasEn(movs, p) == {i \in 1..Len(movs) : movs[i].producto_id = p}

\* C17: a committing movement on product A leaves every other product's row
\* of productos and every other product's movement rows as they were; and a
\* request that has been received can always take its next step (its product
\* read, its commit), whatever the other requests are doing.
C17_Paso ==
  /\ \A r \in Peticiones :
       Confirma(r) =>
         \A b \in DOMAIN productos :
           b # peticiones[r].producto_id
           => /\ productos'[b] = productos[b]
              /\ FilasEn(movimientos', b) = FilasEn(movimientos, b)
              /\ \A i \in FilasEn(movimientos, b) : movimientos'[i] = movimientos[i]
  /\ \A r \in Peticiones :
       /\ peticiones[r].pc = "select" => ENABLED LeerProducto(r)
       /\ peticiones[r].pc = "tx" => ENABLED Transaccion(r)

Autorizado(token) ==
  LET auth == AuthenticateToken(token)
  IN auth.status = 0 /\ PermisoInventario(auth.user)

\* A cantidad that is not an integer >= 1: absent, fractional, zero or negative.
NoEnteroPositivo(c) == c.t \in {"undefined", "fraction"} \/ c.v < 1

\* Requests that passed reception: in flight, or answered after their product read.
Admitidas == {r \in Peticiones : peticiones[r].ruta # ""}

\* C18: the reception of an entrada or salida whose cantidad is not an
\* integer >= 1 ends the request (with 400 "Datos invalidos" naming cantidad
\* when the caller is authorised); no entrada or salida with such a cantidad
\* is past its reception, and every committed entrada or salida row has
\* cantidad >= 1.
C18_CantidadInvalida ==
  /\ \A ruta \in {"entrada", "salida"}, token \in Tokens, pid \in ProductoIds,
        tipo \in TiposBody, cantidad \in CantidadesBody :
       NoEnteroPositivo(cantidad)
       => LET res == Recepcion(ruta, token, pid, tipo, cantidad)
          IN /\ res.pc = "fin"
             /\ res.status \in {400, 401, 403}
             /\ Autorizado(token)
                => /\ res.status = 400
                   /\ res.error = "Datos invalidos"
                   /\ "cantidad" \in res.details
  /\ \A r \in Admitidas :
       peticiones[r].ruta \in {"entrada", "salida"} => ~NoEnteroPositivo(peticiones[r].cantidad)
  /\ \A i \in 1..Len(movimientos) :
       movimientos[i].tipo \in {"entrada", "salida"} => movimientos[i].cantidad >= 1

\* C18 witness: with a product in stock, a request was answered 400 for its
\* cantidad alone, and nothing was committed.
C18_Witness ==
  \E r \in Peticiones :
    /\ peticiones[r].pc = "fin"
    /\ peticiones[r].status = 400
    /\ peticiones[r].details = {"cantidad"}
    /\ Len(productos) = 1
    /\ productos[1].activo
    /\ movimientos = <<>>

\* C19: the reception of a request whose body tipo is not entrada, salida or
\* ajuste ends the request (with 400 "Datos invalidos" naming tipo when the
\* caller is authorised), and every committed row has tipo in that set.
C19_TipoInvalido ==
  /\ \A ruta \in Rutas, token \in Tokens, pid \in ProductoIds,
        tipo \in TiposBody, cantidad \in CantidadesBody :
       tipo \notin {"entrada", "salida", "ajuste"}
       => LET res == Recepcion(ruta, token, pid, tipo, cantidad)
          IN /\ res.pc = "fin"
             /\ res.status \in {400, 401, 403}
             /\ Autorizado(token)
                => /\ res.status = 400
                   /\ res.error = "Datos invalidos"
                   /\ "tipo" \in res.details
  /\ \A i \in 1..Len(movimientos) : movimientos[i].tipo \in {"entrada", "salida", "ajuste"}

\* C19 witness: a request with a committed log behind it was answered 400 for
\* its tipo alone.
C19_Witness ==
  \E r \in Peticiones :
    /\ peticiones[r].pc = "fin"
    /\ peticiones[r].status = 400
    /\ peticiones[r].details = {"tipo"}
    /\ Len(movimientos) = 1
    /\ movimientos[1].tipo = "ajuste"

\* The permissions of user u hold all or the inventory capability.
TieneCapacidad(u) ==
  \/ Roles[Usuarios[u].rol].all = "true"
  \/ Roles[Usuarios[u].rol].inventory \in {"true", "object"}

\* C20: the reception of a request of an authenticated user with neither all
\* nor inventory is answered 403 whatever its body; that of a request with no
\* token, a rejected token, or the token of an unknown or inactive user is
\* answered 401; and every request past its reception, and every committed
\* row, is of an active user with all or inventory.
C20_SoloConPermiso ==
  /\ \A ruta \in Rutas, token \in Tokens, pid \in ProductoIds,
        tipo \in TiposBody, cantidad \in CantidadesBody :
       LET res == Recepcion(ruta, token, pid, tipo, cantidad)
           u == token.userId
       IN IF token.t = "jwt" /\ u \in DOMAIN Usuarios /\ Usuarios[u].activo
          THEN ~TieneCapacidad(u)
               => /\ res.pc = "fin"
                  /\ res.status = 403
                  /\ res.details = {}
          ELSE /\ res.pc = "fin"
               /\ res.status = 401
  /\ \A r \in Admitidas :
       /\ peticiones[r].usuario_id \in DOMAIN Usuarios
       /\ Usuarios[peticiones[r].usuario_id].activo
       /\ TieneCapacidad(peticiones[r].usuario_id)
  /\ \A i \in 1..Len(movimientos) :
       /\ movimientos[i].usuario_id \in DOMAIN Usuarios
       /\ Usuarios[movimientos[i].usuario_id].activo
       /\ TieneCapacidad(movimientos[i].usuario_id)

\* C20 witness: with the administrator's movement committed, a caller without
\* the capability was answered 403 and a caller without a valid session 401.
C20_Witness ==
  \E r, o \in Peticiones :
    /\ peticiones[r].pc = "fin"
    /\ peticiones[r].status = 403
    /\ peticiones[o].pc = "fin"
    /\ peticiones[o].status = 401
    /\ Len(movimientos) = 1
    /\ movimientos[1].usuario_id = 1

\* ================================================================ catalogue
\* The handlers that read or extend the productos table, applied to every
\* small table: GET /api/inventory/stock-bajo, GET /api/inventory/resumen,
\* GET /api/reports/dashboard and POST /api/products.  The response of each
\* is kept in the slot of its request.

\* The orders in which SQL may return the rows S under an ORDER BY: antes has
\* the pairs <<a, b>> where a sorts strictly before b; rows that tie come in
\* any order.
Permutaciones(S) ==
  {s \in [1..Cardinality(S) -> S] : \A i, j \in DOMAIN s : i # j => s[i] # s[j]}

OrdenesSql(S, antes) ==
  {s \in Permutaciones(S) : \A i, j \in DOMAIN s : i < j => <<s[j], s[i]>> \notin antes}

\* The rank of a nombre under the column's collation.
NombreRango(n) == CASE n = "A" -> 1 [] n = "B" -> 2

\* p.stock_minimo - p.stock_actual
Deficit(p) == productos[p].stock_minimo - productos[p].stock_actual

\* Mutant: ORDER BY (p.stock_minimo - p.stock_actual), p.nombre (ascending).
AntesStockBajoAsc(a, b) ==
  \/ Deficit(a) < Deficit(b)
  \/ /\ Deficit(a) = Deficit(b)
     /\ NombreRango(productos[a].nombre) < NombreRango(productos[b].nombre)

\* ORDER BY (p.stock_minimo - p.stock_actual) DESC, p.nombre
AntesStockBajo(a, b) ==
  \/ Deficit(a) > Deficit(b)
  \/ /\ Deficit(a) = Deficit(b)
     /\ NombreRango(productos[a].nombre) < NombreRango(productos[b].nombre)

\* WHERE p.activo = 1 AND p.stock_actual <= p.stock_minimo (every product
\* joins its category: categoria_id is NOT NULL with a foreign key).
SelectStockBajo ==
  {p \in DOMAIN productos :
     productos[p].activo /\ productos[p].stock_actual <= productos[p].stock_minimo}

\* SQL values of an aggregate: NULL, or a number.
SqlNull == [t |-> "null", v |-> 0]
SqlNum(x) == [t |-> "number", v |-> x]

RECURSIVE SumaValor(_)
SumaValor(S) ==
  IF S = {} THEN 0
  ELSE LET p == CHOOSE x \in S : TRUE
       IN productos[p].precio * productos[p].stock_actual + SumaValor(S \ {p})

\* SELECT SUM(precio * stock_actual) as valor_total FROM productos WHERE
\* activo = 1: SUM over no rows is NULL.
SelectValorTotal ==
  LET activos == {p \in DOMAIN productos : productos[p].activo}
  IN IF activos = {} THEN SqlNull ELSE SqlNum(SumaValor(activos))

\* A response of these handlers: what was asked, its status, the product ids
\* of the rows returned in their order, the valuation, and the stock value
\* the body of a creation carried.
RespuestaCatalogo(consulta, s, filas, valor, stock) ==
  [pc |-> "fin", consulta |-> consulta, status |-> s, filas |-> filas,
   valor_total |-> valor, stock |-> stock]

\* The status authenticateToken and the permission check of an inventory
\* handler leave a request with: 0 when it goes on.
AccesoInventario(token) ==
  LET auth == AuthenticateToken(token)
  IN IF auth.status # 0 THEN auth.status
     ELSE IF ~PermisoInventario(auth.user) THEN 403
     ELSE 0

\* The same of a reports handler.
AccesoReportes(token) ==
  LET auth == AuthenticateToken(token)
  IN IF auth.status # 0 THEN auth.status
     ELSE IF ~PermisoReportes(auth.user) THEN 403
     ELSE 0

\* GET /api/inventory/stock-bajo
StockBajo(r, token) ==
  /\ \E orden \in OrdenesSql(SelectStockBajo,
                             {par \in SelectStockBajo \X SelectStockBajo :
                                AntesStockBajo(par[1], par[2])}) :
       peticiones' = [peticiones EXCEPT ![r] =
         IF AccesoInventario(token) # 0
         THEN RespuestaCatalogo("stock-bajo", AccesoInventario(token),
                                <<>>, SqlNull, JsUndefined)
         ELSE RespuestaCatalogo("stock-bajo", 200, orden, SqlNull, JsUndefined)]
  /\ UNCHANGED <<productos, movimientos, categorias>>

\* GET /api/inventory/resumen
Resumen(r, token) ==
  /\ peticiones' = [peticiones EXCEPT ![r] =
       IF AccesoInventario(token) # 0
       THEN RespuestaCatalogo("resumen", AccesoInventario(token),
                              <<>>, SqlNull, JsUndefined)
       ELSE RespuestaCatalogo("resumen", 200, <<>>, SelectValorTotal, JsUndefined)]
  /\ UNCHANGED <<productos, movimientos, categorias>>

\* GET /api/reports/dashboard
Dashboard(r, token) ==
  /\ peticiones' = [peticiones EXCEPT ![r] =
       IF AccesoReportes(token) # 0
       THEN RespuestaCatalogo("dashboard", AccesoReportes(token),
                              <<>>, SqlNull, JsUndefined)
       ELSE RespuestaCatalogo("dashboard", 200, <<>>, SelectValorTotal, JsUndefined)]
  /\ UNCHANGED <<productos, movimientos, categorias>>

\* The largest productos table of the catalogue.
NumProductosCatalogo == MaxProductos + 1

\* POST /api/products, with its response.
Crear(r, token, nombre, precio, stock, minimo, categoria) ==
  /\ Len(productos) < NumProductosCatalogo
  /\ LET auth == AuthenticateToken(token)
     IN IF auth.status # 0
        THEN /\ peticiones' = [peticiones EXCEPT ![r] =
                  RespuestaCatalogo("crear", auth.status, <<>>, SqlNull, stock)]
             /\ UNCHANGED <<productos, movimientos, categorias>>
        ELSE LET res == PostProducto(auth.user, nombre, precio, stock, minimo, categoria)
             IN /\ productos' = res.productos
                /\ peticiones' = [peticiones EXCEPT ![r] =
                     RespuestaCatalogo("crear", res.status,
                                       IF res.status = 200 THEN <<Len(res.productos)>>
                                       ELSE <<>>,
                                       SqlNull, stock)]
                /\ UNCHANGED <<movimientos, categorias>>

\* The tables the catalogue handlers are applied to: up to NumProductosCatalogo
\* products, of two names, of stock below, at and above the minimum of 10,
\* active or deleted.
NombresCatalogo == {"A", "B"}
PreciosCatalogo == {1, 2}
StocksCatalogo == {7, 9, 10, 12}
MinimosCatalogo == {10}
ProductosCatalogo ==
  [nombre : NombresCatalogo, precio : PreciosCatalogo, stock_actual : StocksCatalogo,
   stock_minimo : MinimosCatalogo, categoria_id : Categorias, activo : BOOLEAN]
TokensCatalogo == {Jwt(1), Jwt(2)}
StocksCreacion == {JsUndefined, JsNum(7)}

InitCatalogo ==
  /\ \E n \in 0..NumProductosCatalogo : productos \in [1..n -> ProductosCatalogo]
  /\ movimientos = <<>>
  /\ peticiones = [r \in Peticiones |-> PeticionLibre]
  /\ categorias = CategoriasActivas

NextCatalogo ==
  \/ \E token \in TokensCatalogo : StockBajo(1, token)
  \/ \E token \in TokensCatalogo : Resumen(1, token)
  \/ \E token \in TokensCatalogo : Dashboard(1, token)
  \/ \E token \in TokensCatalogo, stock \in StocksCreacion, minimo \in MinimosCatalogo,
        categoria \in Categorias :
       Crear(1, token, "B", 1, stock, minimo, categoria)

SpecCatalogo == InitCatalogo /\ [][NextCatalogo]_vars

\* A step in which request r is answered by the handler named consulta with
\* status 200.
Contesta(r, consulta) ==
  /\ peticiones'[r].pc = "fin"
  /\ peticiones'[r] # peticiones[r]
  /\ peticiones'[r].consulta = consulta
  /\ peticiones'[r].status = 200

\* C21: a low-stock response lists, each once, exactly the products that are
\* active with stock_actual <= stock_minimo, a product of larger deficit
\* stock_minimo - stock_actual before one of smaller deficit (stock 7 of
\* minimum 10 before stock 9 of minimum 10) and, of two products of equal
\* deficit, the one whose name sorts first before the other.
C21_StockBajoOrdenado ==
  [][\A r \in Peticiones :
       Contesta(r, "stock-bajo") =>
         LET f == peticiones'[r].filas
         IN /\ {f[i] : i \in DOMAIN f}
                 = {p \in DOMAIN productos :
                      productos[p].activo
                      /\ productos[p].stock_actual <= productos[p].stock_minimo}
            /\ \A i, j \in DOMAIN f : i # j => f[i] # f[j]
            /\ \A i, j \in DOMAIN f :
                 i < j =>
                   /\ productos[f[i]].stock_minimo - productos[f[i]].stock_actual
                        >= productos[f[j]].stock_minimo - productos[f[j]].stock_actual
                   /\ (productos[f[i]].stock_minimo - productos[f[i]].stock_actual
                         = productos[f[j]].stock_minimo - productos[f[j]].stock_actual
                       /\ productos[f[i]].nombre = "B")
                        => productos[f[j]].nombre = "B"]_vars

\* C21 witness: a low-stock response of two products, the first at stock 7 of
\* minimum 10 and the second at stock 9 of minimum 10, from a table that holds
\* them in the other order.
C21_Witness ==
  \E r \in Peticiones :
    /\ peticiones[r].pc = "fin"
    /\ peticiones[r].consulta = "stock-bajo"
    /\ peticiones[r].filas = <<2, 1>>
    /\ Len(productos) = 2
    /\ productos[2].stock_actual = 7 /\ productos[2].stock_minimo = 10
    /\ productos[1].stock_actual = 9 /\ productos[1].stock_minimo = 10

\* The sum of precio * stock_actual over the products of S.
RECURSIVE ValorDe(_)
ValorDe(S) ==
  IF S = {} THEN 0
  ELSE LET p == CHOOSE x \in S : TRUE
       IN productos[p].precio * productos[p].stock_actual + ValorDe(S \ {p})

\* C26: the valor_total of a summary or dashboard response is the number that
\* is the sum of precio * stock_actual over the products that are active when
\* the query runs (0 when there is none).
C26_ValorTotal ==
  [][\A r \in Peticiones :
       (Contesta(r, "resumen") \/ Contesta(r, "dashboard")) =>
         peticiones'[r].valor_total
           = SqlNum(ValorDe({p \in DOMAIN productos : productos[p].activo}))]_vars

\* C24: a creation by a caller allowed to create answers 200 and appends one
\* product whose stock_actual is the stock of the body, or 0 when the body has
\* none; it leaves movimientos_inventario as it was.
C24_StockInicial ==
  [][\A r \in Peticiones :
       (/\ peticiones'[r].pc = "fin"
        /\ peticiones'[r] # peticiones[r]
        /\ peticiones'[r].consulta = "crear"
        /\ peticiones'[r].status \notin {401, 403}) =>
         /\ peticiones'[r].status = 200
         /\ Len(productos') = Len(productos) + 1
         /\ productos'[Len(productos')].stock_actual
              = (IF peticiones'[r].stock = JsUndefined THEN 0
                 ELSE peticiones'[r].stock.v)
         /\ movimientos' = movimientos]_vars

Fecha(instante) == instante \div 2

\* A query parameter that was supplied: if (producto_id), if (fecha_inicio), ...
\* of a value of req.query, which is absent or a non-empty string.
Suministrado(j) == j.t # "undefined"

\* The WHERE clause GET /api/inventory builds: tipo, producto_id, fecha_inicio
\* and fecha_fin; it reads no usuario_id.
WhereInventario(q) ==
  {i \in DOMAIN movimientos :
     /\ q.tipo # "" => movimientos[i].tipo = q.tipo
     /\ Suministrado(q.producto_id) => movimientos[i].producto_id = q.producto_id.v
     /\ Suministrado(q.fecha_inicio) =>
          Fecha(movimientos[i].fecha_movimiento) >= q.fecha_inicio.v
     /\ Suministrado(q.fecha_fin) =>
          Fecha(movimientos[i].fecha_movimiento) <= q.fecha_fin.v}

\* The WHERE clause GET /api/reports/movements builds: fecha_inicio, fecha_fin,
\* tipo and usuario_id; it reads no producto_id.
WhereReportes(q) ==
  {i \in DOMAIN movimientos :
     /\ Suministrado(q.fecha_inicio) =>
          Fecha(movimientos[i].fecha_movimiento) >= q.fecha_inicio.v
     /\ Suministrado(q.fecha_fin) =>
          Fecha(movimientos[i].fecha_movimiento) <= q.fecha_fin.v
     /\ q.tipo # "" => movimientos[i].tipo = q.tipo
     /\ Suministrado(q.usuario_id) => movimientos[i].usuario_id = q.usuario_id.v}

\* ORDER BY m.fecha_movimiento DESC
AntesMovimiento(a, b) ==
  movimientos[a].fecha_movimiento > movimientos[b].fecha_movimiento

\* LIMIT ? OFFSET ? with offset = (page - 1) * limit
Limit(orden, page, limit) ==
  LET offset == (page - 1) * limit
      ultimo == IF offset + limit < Len(orden) THEN offset + limit ELSE Len(orden)
  IN SubSeq(orden, offset + 1, ultimo)

\* A response of a movement list: the query, the ids of the rows of the page
\* in their order, and pagination.total.
RespuestaLista(consulta, s, q, filas, total) ==
  [pc |-> "fin", consulta |-> consulta, status |-> s, q |-> q, filas |-> filas,
   total |-> total]

\* GET /api/inventory
ListarMovimientos(r, token, q) ==
  /\ \E orden \in OrdenesSql(WhereInventario(q),
                             {par \in WhereInventario(q) \X WhereInventario(q) :
                                AntesMovimiento(par[1], par[2])}) :
       peticiones' = [peticiones EXCEPT ![r] =
         IF AccesoInventario(token) # 0
         THEN RespuestaLista("movimientos", AccesoInventario(token), q, <<>>, 0)
         ELSE RespuestaLista("movimientos", 200, q, Limit(orden, q.page, q.limit),
                             Cardinality(WhereInventario(q)))]
  /\ UNCHANGED <<productos, movimientos, categorias>>

\* GET /api/reports/movements
ReporteMovimientos(r, token, q) ==
  /\ \E orden \in OrdenesSql(WhereReportes(q),
                             {par \in WhereReportes(q) \X WhereReportes(q) :
                                AntesMovimiento(par[1], par[2])}) :
       peticiones' = [peticiones EXCEPT ![r] =
         IF AccesoReportes(token) # 0
         THEN RespuestaLista("reporte", AccesoReportes(token), q, <<>>, 0)
         ELSE RespuestaLista("reporte", 200, q, Limit(orden, q.page, q.limit),
                             Cardinality(WhereReportes(q)))]
  /\ UNCHANGED <<productos, movimientos, categorias>>

\* The ledgers: up to MaxMovimientos rows of products 1 and 2, by users 1 and
\* 3, inserted at seconds 0..MaxMovimientos in the order of their ids.
Instantes == 0..MaxMovimientos
UsuariosLibro == {1, 3}
FilasLibro ==
  [producto_id : ProductoIdsDos, tipo : {"entrada", "salida"}, usuario_id : UsuariosLibro,
   fecha_movimiento : Instantes]
FilaLibro(i, f) ==
  [id |-> i, producto_id |-> f.producto_id, tipo |-> f.tipo, cantidad |-> 1,
   cantidad_anterior |-> 2,
   cantidad_nueva |-> IF f.tipo = "entrada" THEN 3 ELSE 1,
   usuario_id |-> f.usuario_id, fecha_movimiento |-> f.fecha_movimiento]
Libros ==
  UNION {{[i \in 1..n |-> FilaLibro(i, fs[i])] :
            fs \in {g \in [1..n -> FilasLibro] :
                      \A i, j \in 1..n :
                        i < j => g[i].fecha_movimiento <= g[j].fecha_movimiento}} :
         n \in 0..MaxMovimientos}

\* The queries: no filter on each page of a list of one or two rows per page,
\* and on the first page each filter alone, two pairs of filters and all of
\* them together.
Paginas == {<<1, 1>>, <<2, 1>>, <<1, 2>>}
Filtro(tipo, pid, fi, ff, uid) ==
  [tipo |-> tipo, producto_id |-> pid, fecha_inicio |-> fi, fecha_fin |-> ff,
   usuario_id |-> uid]
Filtros ==
  {Filtro("entrada", JsUndefined, JsUndefined, JsUndefined, JsUndefined),
   Filtro("", JsStr(1), JsUndefined, JsUndefined, JsUndefined),
   Filtro("", JsUndefined, JsStr(1), JsUndefined, JsUndefined),
   Filtro("", JsUndefined, JsUndefined, JsStr(0), JsUndefined),
   Filtro("", JsUndefined, JsUndefined, JsUndefined, JsStr(1)),
   Filtro("entrada", JsUndefined, JsUndefined, JsUndefined, JsStr(1)),
   Filtro("", JsStr(1), JsStr(0), JsStr(0), JsUndefined),
   Filtro("entrada", JsStr(1), JsStr(0), JsStr(0), JsStr(1))}
Consulta(f, page, limit) ==
  [tipo |-> f.tipo, producto_id |-> f.producto_id, fecha_inicio |-> f.fecha_inicio,
   fecha_fin |-> f.fecha_fin, usuario_id |-> f.usuario_id, page |-> page,
   limit |-> limit]
Consultas ==
  {Consulta(Filtro("", JsUndefined, JsUndefined, JsUndefined, JsUndefined), pg[1], pg[2]) :
     pg \in Paginas}
  \cup {Consulta(f, 1, MaxMovimientos) : f \in Filtros}

InitLibro ==
  /\ productos = [p \in ProductoIdsDos |->
                    [nombre |-> "A", precio |-> 1, stock_actual |-> 2,
                     stock_minimo |-> 1, categoria_id |-> 1, activo |-> TRUE]]
  /\ movimientos \in Libros
  /\ peticiones = [r \in Peticiones |-> PeticionLibre]
  /\ categorias = CategoriasActivas

NextLibro ==
  \/ \E token \in TokensCatalogo, q \in Consultas : ListarMovimientos(1, token, q)
  \/ \E token \in TokensCatalogo, q \in Consultas : ReporteMovimientos(1, token, q)

SpecLibro == InitLibro /\ [][NextLibro]_vars

\* The answered movement lists.
Listas ==
  {r \in Peticiones :
     /\ peticiones[r].pc = "fin"
     /\ peticiones[r].consulta \in {"movimientos", "reporte"}
     /\ peticiones[r].status = 200}

\* The rows of S by fecha_movimiento descending, rows of equal fecha_movimiento
\* by id descending.
OrdenTotal(S) ==
  CHOOSE s \in Permutaciones(S) :
    \A i, j \in DOMAIN s :
      i < j =>
        \/ movimientos[s[i]].fecha_movimiento > movimientos[s[j]].fecha_movimiento
        \/ /\ movimientos[s[i]].fecha_movimiento = movimientos[s[j]].fecha_movimiento
           /\ movimientos[s[i]].id > movimientos[s[j]].id

\* C22: the page a movement list returns is the page of the rows its WHERE
\* clause selects taken in the one order by fecha_movimiento descending and,
\* for equal fecha_movimiento, id descending.
C22_OrdenTotal ==
  \A r \in Listas :
    LET res == peticiones[r]
        filas == IF res.consulta = "movimientos" THEN WhereInventario(res.q)
                 ELSE WhereReportes(res.q)
    IN res.filas = Limit(OrdenTotal(filas), res.q.page, res.q.limit)

\* The movements that satisfy every filter that query q supplies.
Coinciden(q) ==
  {i \in DOMAIN movimientos :
     /\ q.tipo # "" => movimientos[i].tipo = q.tipo
     /\ q.producto_id # JsUndefined => movimientos[i].producto_id = q.producto_id.v
     /\ q.usuario_id # JsUndefined => movimientos[i].usuario_id = q.usuario_id.v
     /\ q.fecha_inicio # JsUndefined =>
          movimientos[i].fecha_movimiento \div 2 >= q.fecha_inicio.v
     /\ q.fecha_fin # JsUndefined =>
          movimientos[i].fecha_movimiento \div 2 <= q.fecha_fin.v}

\* C23: a movement list counts as total, and returns on its pages, exactly
\* the movements that satisfy all of the filters by product, by dates, by
\* kind and by acting user that the query supplies.
C23_Filtros ==
  \A r \in Listas :
    LET res == peticiones[r]
        filas == {res.filas[i] : i \in DOMAIN res.filas}
    IN /\ res.total = Cardinality(Coinciden(res.q))
       /\ filas \subseteq Coinciden(res.q)
       /\ (res.q.page = 1 /\ res.q.limit >= res.total) => filas = Coinciden(res.q)

C28_ResultadoIdentifica ==
  [][\A r \in Peticiones :
       Confirma(r) =>
         LET res == Respuesta201(peticiones'[r])
             fila == movimientos'[Len(movimientos')]
         IN /\ res.cantidad = fila.cantidad
            /\ res.cantidad_anterior = fila.cantidad_anterior
            /\ res.cantidad_nueva.v = fila.cantidad_nueva
            /\ res.cantidad_nueva.v = productos'[res.producto_id].stock_actual
            /\ "id" \in DOMAIN res
            /\ "fecha_movimiento" \in DOMAIN res]_vars

\* ================================================================= fairness
\* The handlers of NextAcceso where every awaited promise settles: the product
\* SELECT returns, and the transaction commits or throws.
SpecAccesoJusto ==
  /\ SpecAcceso
  /\ \A r \in Peticiones :
       /\ WF_vars(LeerProducto(r))
       /\ WF_vars(Transaccion(r) \/ TransaccionFalla(r))

\* C29: a request of an authenticated caller is at its reception answered 403
\* or 400 'Datos invalidos' or goes on to its product SELECT; a request that
\* went on is eventually answered; the answer it gets then, given once, is
\* 404, 400 'Stock insuficiente', 500 or 201; and it is 201 only in the step
\* that commits its row and its stock.
C29_UnaRespuestaTipada ==
  /\ [](\A ruta \in Rutas, token \in Tokens, pid \in ProductoIds, tipo \in TiposBody,
           cantidad \in CantidadesBody :
          AuthenticateToken(token).status = 0 =>
            LET p == Recepcion(ruta, token, pid, tipo, cantidad)
            IN \/ p.pc = "select" /\ p.status = 0
               \/ /\ p.pc = "fin"
                  /\ <<p.status, p.error>>
                       \in {<<403, "Acceso denegado">>, <<400, "Datos invalidos">>})
  /\ [][\A r \in Peticiones :
          (peticiones[r].pc \in {"select", "tx"} /\ peticiones'[r] # peticiones[r]) =>
            \/ /\ peticiones[r].pc = "select"
               /\ peticiones'[r].pc = "tx"
               /\ peticiones'[r].status = 0
            \/ /\ peticiones'[r].pc = "fin"
               /\ <<peticiones'[r].status, peticiones'[r].error>>
                    \in {<<404, "Producto no encontrado">>, <<400, "Stock insuficiente">>,
                         <<500, "Error interno del servidor">>, <<201, "">>}
               /\ peticiones'[r].status = 201 =>
                    /\ peticiones[r].pc = "tx"
                    /\ Len(movimientos') = Len(movimientos) + 1
                    /\ movimientos'[Len(movimientos')].producto_id
                         = peticiones[r].producto_id
                    /\ productos'[peticiones[r].producto_id].stock_actual
                         = movimientos'[Len(movimientos')].cantidad_nueva]_vars
  /\ \A r \in Peticiones :
       (peticiones[r].pc \in {"select", "tx"}) ~> (peticiones[r].pc = "fin")

\* C29 witness: two requests that went on to their product SELECT have been
\* answered, one with 201 and one with 500.
C29_Witness ==
  \E r, o \in Peticiones :
    /\ peticiones[r].pc = "fin" /\ peticiones[r].status = 201
    /\ peticiones[o].pc = "fin" /\ peticiones[o].status = 500

\* C30: a request is never committed with a stale read: in the step that
\* commits request r, the stock r read is still the stock_actual of its
\* product.
C30_SinLecturaObsoleta ==
  [][\A r \in Peticiones :
       Confirma(r) =>
         peticiones[r].cantidad_anterior
           = productos[peticiones[r].producto_id].stock_actual]_vars

\* The product's latest movement is one of kind tipo and quantity q, and the
\* stock is still what that movement left.
RecienMovido(p, tipo, q) ==
  /\ FilasDe(p) # {}
  /\ Ultima(p).tipo = tipo
  /\ Ultima(p).cantidad = q
  /\ productos[p].stock_actual = Ultima(p).cantidad_nueva

\* C31: when an entrada of quantity q commits on a product whose latest
\* movement is an entrada of q from stock s, the product has two more rows
\* than before the first and its stock is s + 2q; likewise a salida of q after
\* a salida of q leaves s - 2q.
C31_Paso ==
  \A r \in Peticiones :
    LET pet == peticiones[r]
        p == pet.producto_id
        q == pet.cantidad.v
    IN (Confirma(r) /\ pet.ruta \in {"entrada", "salida"} /\ RecienMovido(p, pet.ruta, q))
         => /\ Len(movimientos') = Len(movimientos) + 1
            /\ movimientos'[Len(movimientos')].tipo = pet.ruta
            /\ movimientos'[Len(movimientos')].producto_id = p
            /\ productos'[p].stock_actual
                 = (IF pet.ruta = "entrada"
                    THEN Ultima(p).cantidad_anterior + 2 * q
                    ELSE Ultima(p).cantidad_anterior - 2 * q)

\* C31: in every step a repeated entrada or salida applies its quantity a
\* second time (C31_Paso).
C31_NoIdempotente == [][C31_Paso]_vars

\* C32: an entrada that commits with cantidad of integer value q, given as a
\* number or as a string, records cantidad_nueva = cantidad_anterior + q and
\* sets stock_actual to it.
C32_EntradaSuma ==
  [][\A r \in Peticiones :
       (Confirma(r) /\ peticiones[r].ruta = "entrada") =>
         LET pet == peticiones[r]
             m == movimientos'[Len(movimientos')]
         IN /\ m.cantidad_anterior = pet.cantidad_anterior
            /\ m.cantidad_nueva = pet.cantidad_anterior + pet.cantidad.v
            /\ productos'[pet.producto_id].stock_actual
                 = pet.cantidad_anterior + pet.cantidad.v]_vars

\* C33: an ajuste to 0 is answered 400 naming cantidad at its reception; an
\* ajuste that commits leaves stock_actual >= 1; and a step that brings the
\* stock of a product to 0 is a PUT of the product or the commit of a salida
\* of all the stock the product has.
C33_AjusteACero ==
  /\ [](\A token \in TokensSemilla, pid \in ProductoIds :
          LET p == Recepcion("ajuste", token, pid, "ajuste", JsNum(0))
          IN p.pc = "fin" /\ p.status = 400 /\ "cantidad" \in p.details)
  /\ [][/\ \A r \in Peticiones :
             (Confirma(r) /\ peticiones[r].ruta = "ajuste") =>
               productos'[peticiones[r].producto_id].stock_actual >= 1
        /\ \A p \in DOMAIN productos :
             (productos[p].stock_actual # 0 /\ productos'[p].stock_actual = 0) =>
               \/ movimientos' = movimientos /\ peticiones' = peticiones
               \/ \E r \in Peticiones :
                    /\ Confirma(r)
                    /\ peticiones[r].ruta = "salida"
                    /\ peticiones[r].producto_id = p
                    /\ peticiones[r].cantidad.v = productos[p].stock_actual]_vars

\* C34: what the reception of a request leaves is the same for every valid
\* tipo of the body, and carries the route called; a body whose tipo is not
\* one of the three kinds is answered 400 naming tipo; and a committed row has
\* the kind of the route called, with the cantidad_nueva of that route.
C34_TipoDelEndpoint ==
  /\ [](\A ruta \in Rutas, token \in TokensSemilla, pid \in ProductoIds,
           cantidad \in Cantidades :
          /\ \A t1, t2 \in Tipos :
               Recepcion(ruta, token, pid, t1, cantidad)
                 = Recepcion(ruta, token, pid, t2, cantidad)
          /\ \A t \in Tipos :
               LET p == Recepcion(ruta, token, pid, t, cantidad)
               IN p.pc = "select" => p.ruta = ruta
          /\ \A t \in TiposBody \ Tipos :
               LET p == Recepcion(ruta, token, pid, t, cantidad)
               IN p.pc = "fin" /\ p.status = 400 /\ "tipo" \in p.details)
  /\ [][\A r \in Peticiones :
          Confirma(r) =>
            LET pet == peticiones[r]
                m == movimientos'[Len(movimientos')]
            IN /\ m.tipo = pet.ruta
               /\ pet.ruta = "entrada" =>
                    m.cantidad_nueva = SqlInt(JsAdd(pet.cantidad_anterior, pet.cantidad))
               /\ pet.ruta = "salida" =>
                    m.cantidad_nueva = pet.cantidad_anterior - pet.cantidad.v
               /\ pet.ruta = "ajuste" => m.cantidad_nueva = pet.cantidad.v]_vars

\* C34 witness: a request in the state that POST /entrada with tipo 'salida'
\* in its body leaves has committed an entrada row that raised the stock.
C34_Witness ==
  \E r \in Peticiones :
    LET p == Recepcion("entrada", Jwt(1), peticiones[r].producto_id, "salida",
                       peticiones[r].cantidad)
    IN /\ peticiones[r].pc = "fin"
       /\ peticiones[r].status = 201
       /\ p.pc = "select"
       /\ p.ruta = peticiones[r].ruta
       /\ p.usuario_id = peticiones[r].usuario_id
       /\ Len(movimientos) > 0
       /\ movimientos[Len(movimientos)].tipo = "entrada"
       /\ movimientos[Len(movimientos)].producto_id = peticiones[r].producto_id
       /\ movimientos[Len(movimientos)].cantidad_anterior = peticiones[r].cantidad_anterior
       /\ movimientos[Len(movimientos)].cantidad_nueva
            > movimientos[Len(movimientos)].cantidad_anterior

\* ================================================================== usuario
\* The movement handlers called by a user of the seeded role usuario, whose
\* permisos are {"products": true, "inventory": {"read": true, "write": false}},
\* on two products.
NextUsuario ==
  \/ \E r \in Peticiones, ruta \in Rutas, pid \in ProductoIdsDos, cantidad \in CantidadesDos :
       Recibir(r, ruta, Jwt(UsuarioBasico), pid, ruta, cantidad)
  \/ \E r \in Peticiones : LeerProducto(r)
  \/ \E r \in Peticiones : Transaccion(r)
  \/ \E r \in Peticiones : TransaccionFalla(r)

SpecUsuario == InitDos /\ [][NextUsuario]_vars

\* C35: every request of the user of role usuario is answered 403 'Acceso
\* denegado' at its reception, and no step changes productos or
\* movimientos_inventario.
C35_UsuarioSinEscritura ==
  [][/\ \A r \in Peticiones :
          (peticiones[r].pc \in {"libre", "fin"} /\ peticiones'[r] # peticiones[r]) =>
            peticiones'[r] = RespuestaError(403, "Acceso denegado")
     /\ UNCHANGED <<productos, movimientos>>]_vars

\* =============================================================== categorias
\* DELETE /api/categories/:id next to the products handlers.  The slot of a
\* deletion holds the handler's position and its local id.
PeticionCategoria(pc, id, s, e) == [pc |-> pc, categoria |-> id, status |-> s, error |-> e]

\* What authenticateToken and the permission check leave in the slot: their
\* response, or the handler at the await of the category SELECT.
RecepcionCategoria(token, id) ==
  LET auth == AuthenticateToken(token)
  IN IF auth.status # 0 THEN PeticionCategoria("fin", id, auth.status, auth.error)
     ELSE IF ~PermisoProductos(auth.user)
     THEN PeticionCategoria("fin", id, 403, "Acceso denegado")
     ELSE PeticionCategoria("existe", id, 0, "")

\* Reception of DELETE /api/categories/:id
RecibirEliminarCategoria(r, token, id) ==
  /\ peticiones[r].pc \in {"libre", "fin"}
  /\ \A o \in Peticiones : o < r => peticiones[o].pc # "libre"
  /\ peticiones' = [peticiones EXCEPT ![r] = RecepcionCategoria(token, id)]
  /\ UNCHANGED <<productos, movimientos, categorias>>

\* SELECT id, nombre FROM categorias WHERE id = ? AND activo = 1
SelectCategoriaActiva(id) == {c \in DOMAIN categorias : c = id /\ categorias[c].activo}

\* SELECT COUNT(*) as count FROM productos WHERE categoria_id = ? AND activo = 1
CountProductosActivos(id) ==
  Cardinality({p \in DOMAIN productos :
                 productos[p].categoria_id = id /\ productos[p].activo})

\* The category SELECT returns: 404 when it finds no row, else the handler
\* goes on to the await of the COUNT.
ExisteCategoria(r) ==
  LET pet == peticiones[r]
  IN /\ pet.pc = "existe"
     /\ peticiones' = [peticiones EXCEPT ![r] =
          IF SelectCategoriaActiva(pet.categoria) = {}
          THEN PeticionCategoria("fin", pet.categoria, 404, "Categoria no encontrada")
          ELSE PeticionCategoria("cuenta", pet.categoria, 0, "")]
     /\ UNCHANGED <<productos, movimientos, categorias>>

\* The COUNT returns: 400 when a product uses the category, else the handler
\* goes on to the await of the UPDATE.
ContarProductos(r) ==
  LET pet == peticiones[r]
  IN /\ pet.pc = "cuenta"
     /\ peticiones' = [peticiones EXCEPT ![r] =
          IF CountProductosActivos(pet.categoria) > 0
          THEN PeticionCategoria("fin", pet.categoria, 400, "Categoria en uso")
          ELSE PeticionCategoria("update", pet.categoria, 0, "")]
     /\ UNCHANGED <<productos, movimientos, categorias>>

\* UPDATE categorias SET activo = 0 WHERE id = ?, and the response.
DesactivarCategoria(r) ==
  LET pet == peticiones[r]
  IN /\ pet.pc = "update"
     /\ categorias' = [categorias EXCEPT ![pet.categoria].activo = FALSE]
     /\ peticiones' = [peticiones EXCEPT ![r] =
                         PeticionCategoria("fin", pet.categoria, 200, "")]
     /\ UNCHANGED <<productos, movimientos>>

NextCategorias ==
  \/ \E r \in Peticiones, token \in TokensSemilla, id \in Categorias :
       RecibirEliminarCategoria(r, token, id)
  \/ \E r \in Peticiones : ExisteCategoria(r)
  \/ \E r \in Peticiones : ContarProductos(r)
  \/ \E r \in Peticiones : DesactivarCategoria(r)
  \/ \E u \in UsuariosSemilla, nombre \in Nombres, precio \in Precios, stock \in StocksBody,
        minimo \in Minimos, categoria \in Categorias :
       CrearProducto(u, nombre, precio, stock, minimo, categoria)
  \/ \E u \in UsuariosSemilla, id \in ProductoIds, nombre \in Nombres, precio \in Precios,
        stock \in StocksBody, minimo \in Minimos, categoria \in Categorias :
       ActualizarProducto(u, id, nombre, precio, stock, minimo, categoria)
  \/ \E u \in UsuariosSemilla, id \in ProductoIds : EliminarProducto(u, id)

SpecCategorias == Init /\ [][NextCategorias]_vars

\* C36: in every reachable state every product with activo = 1 belongs to a
\* category with activo = 1.
C36_ProductoActivoEnCategoriaActiva ==
  \A p \in DOMAIN productos :
    productos[p].activo => categorias[productos[p].categoria_id].activo

====
